---- MODULE Spec2Model ----
(***************************************************************************)
(* X.renderer (src/xtk/visualization/renderer.js) as a state machine.      *)
(* One renderer instance, its DOM and WebGL collaborators, and one scene   *)
(* object owned by the caller.  Every public method is one action; the     *)
(* exceptions a method throws are recorded in last.err.  render is also    *)
(* given pass by pass of its loop (renderBegin, renderPass) in SpecLoop.   *)
(***************************************************************************)
EXTENDS Integers, Sequences, FiniteSets, TLC

\* ---------------------------------------------------------------- bounds
\* points / per-point colors a scene object may hold
MaxPoints == 2
\* successful addObject calls
MaxObjects == 2
\* canvas elements the document may hold (one per init that gets past line 341)
MaxCanvases == 2
\* shader programs the context may create
MaxPrograms == 2

\* ------------------------------------------------------------ value sets
\* null / undefined; every reference is a tuple <<kind, ...>>, so that it can be
\* compared with NULL
NULL == <<>>
Ref(kind, n) == <<kind, n>>
Sizes == {1, 2}
BgColors == {"#000000", "#ffffff"}
\* a <div> of the page, and document.body
Div == Ref("element", "div")
Body == Ref("element", "body")
\* X.color(1, 1, 1): the default color of addObject, flattened r,g,b,alpha
White == <<1, 1, 1, 1>>
Red == <<1, 0, 0, 1>>
Blue == <<0, 0, 1, 1>>
ObjectColors == {Red}
PointColors == {Blue}
Origin == <<0, 0, 0>>
\* the only scene object of the model, and the arguments that are none
TheObject == Ref("object", 1)
BadArgs == {NULL, Ref("notAnObject", 1)}
\* X.shader arguments: absent, one that compiles, one that does not
GoodShader == Ref("shader", "good")
BadShader == Ref("shader", "bad")
ShaderArgs == {NULL, GoodShader, BadShader}
NoError == "none"

VARIABLES
  width, height, backgroundColor, container,   \* this._width ... this._container
  canvas, gl, camera,                          \* this._canvas, this._gl, this._camera
  objects, vertexBuffers, colorBuffers, id,    \* the three goog.structs.Map and this._id
  shaderProgram, vertexPositionAttribute, vertexColorAttribute,
  surface,      \* properties of the canvas element this._canvas refers to
  elements,     \* the canvas elements created so far: each one's parent node
  nBuffers,     \* buffers the context has created (gl.createBuffer)
  nPrograms,    \* programs the context has created (gl.createProgram)
  object,       \* the caller's scene object: color(), points(), colors()
  returned,     \* the identifiers addObject has returned so far, in order
  last,         \* the last call: method, argument, exception, return value, GL commands
  keyIterator   \* render's loop in progress: <<the keys still to come>>, else NULL

rendererVars == <<width, height, backgroundColor, container, canvas, gl, camera,
                  objects, vertexBuffers, colorBuffers, id,
                  shaderProgram, vertexPositionAttribute, vertexColorAttribute>>
hostVars == <<surface, elements, nBuffers, nPrograms>>
vars == <<rendererVars, hostVars, object, returned, last, keyIterator>>

\* ------------------------------------------------------ goog.structs.Map
\* keys in insertion order, and the values
EmptyMap == [keys |-> <<>>, vals |-> <<>>]
Range(s) == {s[i] : i \in DOMAIN s}
MapContainsKey(m, k) == k \in Range(m.keys)
MapGet(m, k) == IF MapContainsKey(m, k) THEN m.vals[k] ELSE NULL
\* MapSet building a fresh map that holds only the new entry
MapSet_single(m, k, v) == [keys |-> <<k>>, vals |-> [x \in {k} |-> v]]

MapSet(m, k, v) ==
  IF MapContainsKey(m, k)
  THEN [m EXCEPT !.vals = [x \in DOMAIN m.vals |-> IF x = k THEN v ELSE m.vals[x]]]
  ELSE [keys |-> Append(m.keys, k),
        vals |-> [x \in DOMAIN m.vals \cup {k} |-> IF x = k THEN v ELSE m.vals[x]]]

\* X.buffer(glBuffer, itemCount, itemSize)
Buffer(glBuffer, itemCount, itemSize) ==
  [glBuffer |-> glBuffer, itemCount |-> itemCount, itemSize |-> itemSize]

\* X.points.flatten / X.colors.flatten: the components of every element in order
RECURSIVE Flatten(_)
Flatten(s) == IF s = <<>> THEN <<>> ELSE Head(s) \o Flatten(Tail(s))

\* the record of a call
Call(op, arg, err, ret, wasInit, cmds) ==
  [op |-> op, arg |-> arg, err |-> err, ret |-> ret, wasInit |-> wasInit, cmds |-> cmds]

Initialized == canvas # NULL /\ gl # NULL /\ camera # NULL

\* ------------------------------------------------------------------ Init
\* new X.renderer(1, 1); the caller's scene object is new and empty
Init ==
  /\ width = 1
  /\ height = 1
  /\ backgroundColor = "#000000"
  /\ container = NULL
  /\ canvas = NULL
  /\ gl = NULL
  /\ camera = NULL
  /\ objects = EmptyMap
  /\ vertexBuffers = EmptyMap
  /\ colorBuffers = EmptyMap
  /\ id = -1
  /\ shaderProgram = NULL
  /\ vertexPositionAttribute = NULL
  /\ vertexColorAttribute = NULL
  /\ surface = NULL
  /\ elements = <<>>
  /\ nBuffers = 0
  /\ nPrograms = 0
  /\ object = [color |-> NULL, points |-> <<>>, colors |-> <<>>]
  /\ returned = <<>>
  /\ last = Call("new", NULL, NoError, NULL, FALSE, <<>>)
  /\ keyIterator = NULL

\* --------------------------------------------------------------- setters
\* canvas.style.setProperty(name, value.toString()) on the live canvas
StyleSet(s, name, value) == [s EXCEPT !.style[name] = ToString(value)]

setWidth(w) ==
  /\ surface' = IF canvas # NULL THEN StyleSet(surface, "width", w) ELSE surface
  /\ width' = w
  /\ last' = Call("setWidth", w, NoError, NULL, canvas # NULL, <<>>)
  /\ UNCHANGED <<height, backgroundColor, container, canvas, gl, camera, objects,
                 vertexBuffers, colorBuffers, id, shaderProgram,
                 vertexPositionAttribute, vertexColorAttribute,
                 elements, nBuffers, nPrograms, object, returned>>
  /\ UNCHANGED keyIterator

setHeight(h) ==
  /\ surface' = IF canvas # NULL THEN StyleSet(surface, "height", h) ELSE surface
  /\ height' = h
  /\ last' = Call("setHeight", h, NoError, NULL, canvas # NULL, <<>>)
  /\ UNCHANGED <<width, backgroundColor, container, canvas, gl, camera, objects,
                 vertexBuffers, colorBuffers, id, shaderProgram,
                 vertexPositionAttribute, vertexColorAttribute,
                 elements, nBuffers, nPrograms, object, returned>>
  /\ UNCHANGED keyIterator

setBackgroundColor(c) ==
  /\ surface' = IF canvas # NULL
                THEN [surface EXCEPT !.style["background-color"] = c]
                ELSE surface
  /\ backgroundColor' = c
  /\ last' = Call("setBackgroundColor", c, NoError, NULL, canvas # NULL, <<>>)
  /\ UNCHANGED <<width, height, container, canvas, gl, camera, objects,
                 vertexBuffers, colorBuffers, id, shaderProgram,
                 vertexPositionAttribute, vertexColorAttribute,
                 elements, nBuffers, nPrograms, object, returned>>
  /\ UNCHANGED keyIterator

\* setContainer(container); setContainerById delegates to it
setContainer(c) ==
  /\ IF c = NULL
     THEN /\ last' = Call("setContainer", c, "NoContainer", NULL, canvas # NULL, <<>>)
          /\ UNCHANGED container
     ELSE /\ container' = c
          /\ last' = Call("setContainer", c, NoError, NULL, canvas # NULL, <<>>)
  /\ UNCHANGED <<width, height, backgroundColor, canvas, gl, camera, objects,
                 vertexBuffers, colorBuffers, id, shaderProgram,
                 vertexPositionAttribute, vertexColorAttribute,
                 hostVars, object, returned>>
  /\ UNCHANGED keyIterator

\* ------------------------------------------------------------------ init
\* CanvasExists without the check: init creates a surface on every call
CanvasExists_never == FALSE

\* "if the canvas already exists, exit now"
CanvasExists == canvas # NULL

\* goog.dom.createDom('canvas') with the style and size init gives it
NewCanvas ==
  [width |-> width, height |-> height,
   style |-> [n \in {"width", "height", "background-color"} |->
                IF n = "background-color" THEN backgroundColor ELSE ""]]

\* the calls of step 3, in order
ConfigCmds ==
  << <<"viewport", 0, 0, width, height>>, <<"clearColor", 0, 0, 0, 0>>,
     <<"enable", "DEPTH_TEST">>, <<"depthFunc", "LEQUAL">>, <<"clear">> >>

\* InitThrow with the canvas assigned where it is created, before the context
\* is requested
InitThrow_published(c, parent, err, cmds) ==
  /\ elements' = Append(elements, parent)
  /\ last' = Call("init", NULL, err, NULL, FALSE, cmds)
  /\ canvas' = c
  /\ surface' = [width |-> width, height |-> height,
                 style |-> [n \in {"width", "height", "background-color"} |->
                              IF n = "background-color" THEN backgroundColor ELSE ""]]
  /\ UNCHANGED <<gl, camera>>

\* init throws: the element c was created (under parent, NULL when it was not
\* appended), cmds went to its context, and no attribute of the renderer but
\* the container is assigned
InitThrow(c, parent, err, cmds) ==
  /\ elements' = Append(elements, parent)
  /\ last' = Call("init", NULL, err, NULL, FALSE, cmds)
  /\ UNCHANGED <<canvas, gl, camera, surface>>

\* the end of init: "attach all created objects as class attributes"
InitPublish(c, parent, cmds) ==
  /\ elements' = Append(elements, parent)
  /\ canvas' = c
  /\ surface' = NewCanvas
  /\ gl' = Ref("gl", c[2])
  /\ camera' = Ref("camera", c[2])
  /\ last' = Call("init", NULL, NoError, NULL, FALSE, cmds)

init ==
  /\ IF CanvasExists
     THEN /\ last' = Call("init", NULL, NoError, NULL, TRUE, <<>>)
          /\ UNCHANGED <<container, canvas, gl, camera, surface, elements>>
     ELSE /\ Len(elements) < MaxCanvases
          /\ LET c == Ref("canvas", Len(elements) + 1) IN
             \* getContainer: no container set and no <body> in the document
             \/ /\ container = NULL
                /\ InitThrow(c, NULL, "NoBody", <<>>)
                /\ UNCHANGED container
             \/ /\ container' = IF container = NULL THEN Body ELSE container
                /\ \/ InitThrow(c, container', "GetContextException", <<>>)
                   \/ InitThrow(c, container', "WebGLNotSupported", <<>>)
                   \/ \E k \in 0 .. Len(ConfigCmds) - 1 :
                        InitThrow(c, container', "AccessContextException",
                                  SubSeq(ConfigCmds, 1, k))
                   \/ InitPublish(c, container', ConfigCmds)
  /\ UNCHANGED <<width, height, backgroundColor, objects, vertexBuffers,
                 colorBuffers, id, shaderProgram, vertexPositionAttribute,
                 vertexColorAttribute, nBuffers, nPrograms, object, returned>>
  /\ UNCHANGED keyIterator

\* ------------------------------------------------------------ addShaders
CompileCmds ==
  << <<"createShader", "FRAGMENT_SHADER">>, <<"createShader", "VERTEX_SHADER">>,
     <<"shaderSource">>, <<"shaderSource">>,
     <<"compileShader">>, <<"compileShader">> >>

LinkCmds(p) ==
  << <<"createProgram", p>>, <<"attachShader", p>>, <<"attachShader", p>>,
     <<"linkProgram", p>> >>

UseCmds(p) ==
  << <<"useProgram", p>>, <<"getAttribLocation", p, "vertexPosition">>,
     <<"enableVertexAttribArray", Ref("attrib", 0)>>,
     <<"getAttribLocation", p, "vertexColor">>,
     <<"enableVertexAttribArray", Ref("attrib", 1)>> >>

\* AddShadersNotInitialized without the check
AddShadersNotInitialized_unchecked == FALSE

\* the first check of addShaders
AddShadersNotInitialized == canvas = NULL \/ gl = NULL

\* ProgramAfterLinkFailure with the program stored as soon as it is created
ProgramAfterLinkFailure_stored(p) == p

\* the throw of the link check comes before "this._shaderProgram =": the
\* program p that failed to link is dropped and the field keeps its value
ProgramAfterLinkFailure(p) == shaderProgram

addShaders(fragmentShader, vertexShader) ==
  /\ IF AddShadersNotInitialized
     THEN /\ last' = Call("addShaders", <<fragmentShader, vertexShader>>,
                          "NotInitialized", NULL, Initialized, <<>>)
          /\ UNCHANGED <<shaderProgram, vertexPositionAttribute,
                         vertexColorAttribute, nPrograms>>
     ELSE IF fragmentShader = NULL \/ vertexShader = NULL
     THEN /\ last' = Call("addShaders", <<fragmentShader, vertexShader>>,
                          "NoShaders", NULL, Initialized, <<>>)
          /\ UNCHANGED <<shaderProgram, vertexPositionAttribute,
                         vertexColorAttribute, nPrograms>>
     ELSE IF fragmentShader = BadShader \/ vertexShader = BadShader
     THEN /\ last' = Call("addShaders", <<fragmentShader, vertexShader>>,
                          "ShaderCompilation", NULL, Initialized, CompileCmds)
          /\ UNCHANGED <<shaderProgram, vertexPositionAttribute,
                         vertexColorAttribute, nPrograms>>
     ELSE /\ nPrograms < MaxPrograms
          /\ nPrograms' = nPrograms + 1
          /\ LET p == Ref("program", nPrograms + 1) IN
             \* LINK_STATUS is false
             \/ /\ last' = Call("addShaders", <<fragmentShader, vertexShader>>,
                                "ShaderLink", NULL, Initialized,
                                CompileCmds \o LinkCmds(p))
                /\ shaderProgram' = ProgramAfterLinkFailure(p)
                /\ UNCHANGED <<vertexPositionAttribute, vertexColorAttribute>>
             \/ /\ vertexPositionAttribute' = Ref("attrib", 0)
                /\ vertexColorAttribute' = Ref("attrib", 1)
                /\ shaderProgram' = p
                /\ last' = Call("addShaders", <<fragmentShader, vertexShader>>,
                                NoError, NULL, Initialized,
                                CompileCmds \o LinkCmds(p) \o UseCmds(p))
  /\ UNCHANGED <<width, height, backgroundColor, container, canvas, gl, camera,
                 objects, vertexBuffers, colorBuffers, id,
                 surface, elements, nBuffers, object, returned>>
  /\ UNCHANGED keyIterator

\* ------------------------------------------------------------- addObject
\* n references to the color c, as the loop of colors.add(objectColor) builds
Copies(n, c) == [i \in 1 .. n |-> c]

\* ResolveColors without the comparison of the two counts: the point colors
\* are taken whenever the object has no color
ResolveColors_noCountCheck(o) ==
  IF o.color = NULL
  THEN [colors |-> o.colors, obj |-> o]
  ELSE [colors |-> Copies(Len(o.points), o.color), obj |-> o]

\* ResolveColors without "colors = new X.colors()": the loop adds to the
\* container colors refers to, which is the object's own
ResolveColors_aliased(o) ==
  IF o.color = NULL
  THEN IF Len(o.points) = Len(o.colors)
       THEN [colors |-> o.colors, obj |-> o]
       ELSE [colors |-> o.colors \o Copies(Len(o.points), White),
             obj |-> [o EXCEPT !.colors = o.colors \o Copies(Len(o.points), White)]]
  ELSE [colors |-> Copies(Len(o.points), o.color), obj |-> o]

\* ResolveColors with the object color added once instead of once per point
ResolveColors_once(o) ==
  IF o.color = NULL
  THEN IF Len(o.points) = Len(o.colors)
       THEN [colors |-> o.colors, obj |-> o]
       ELSE [colors |-> Copies(Len(o.points), White), obj |-> o]
  ELSE [colors |-> <<o.color>>, obj |-> o]

\* The color resolution of addObject, on the scene object o.  colors is the
\* local list that is uploaded; it is o's own container (an alias, not a copy)
\* when the point colors are valid and a new X.colors otherwise.  obj is o as
\* the code leaves it.
ResolveColors(o) ==
  LET colorsValid == IF o.color = NULL THEN Len(o.points) = Len(o.colors) ELSE FALSE
      objectColor == IF o.color = NULL THEN White ELSE o.color
  IN  IF colorsValid
      THEN [colors |-> o.colors, obj |-> o]
      ELSE [colors |-> Copies(Len(o.points), objectColor), obj |-> o]

\* "every vertex consists of 3 items (x,y,z)", "every color consists of 4 items"
VertexItemSize == 3
ColorItemSize == 4

\* createBuffer, bindBuffer, bufferData for one buffer
UploadCmds(b, data) ==
  << <<"createBuffer", b>>, <<"bindBuffer", b>>, <<"bufferData", b, data>> >>

\* NextId without the increment
NextId_same(i) == i

\* NextId incrementing twice
NextId_skip(i) == i + 2

\* ++this._id
NextId(i) == i + 1

\* AddObjectNotInitialized without the check
AddObjectNotInitialized_unchecked == FALSE

\* the first check of addObject
AddObjectNotInitialized == canvas = NULL \/ gl = NULL \/ camera = NULL

\* IllegalObject without the instanceof test
IllegalObject_absentOnly(arg) == arg = NULL

\* !object || !(object instanceof X.object)
IllegalObject(arg) == arg = NULL \/ arg # TheObject

\* VertexBuffer counting the flattened coordinates instead of the points
VertexBuffer_floats(glBuffer, o) ==
  Buffer(glBuffer, Len(Flatten(o.points)), VertexItemSize)

\* new X.buffer(glVertexBuffer, object.points().count(), 3)
VertexBuffer(glBuffer, o) == Buffer(glBuffer, Len(o.points), VertexItemSize)

\* new X.buffer(glColorBuffer, colors.count(), 4)
ColorBuffer(glBuffer, colors) == Buffer(glBuffer, Len(colors), ColorItemSize)

addObject(arg) ==
  /\ IF AddObjectNotInitialized
     THEN /\ last' = Call("addObject", arg, "NotInitialized", NULL, Initialized, <<>>)
          /\ UNCHANGED <<objects, vertexBuffers, colorBuffers, id, nBuffers, object,
                         returned>>
     ELSE IF IllegalObject(arg)
     THEN /\ last' = Call("addObject", arg, "IllegalObject", NULL, Initialized, <<>>)
          /\ UNCHANGED <<objects, vertexBuffers, colorBuffers, id, nBuffers, object,
                         returned>>
     ELSE /\ Len(objects.keys) < MaxObjects
          /\ LET r == ResolveColors(object)
                 glVertexBuffer == Ref("glBuffer", nBuffers + 1)
                 vertexBuffer == VertexBuffer(glVertexBuffer, r.obj)
                 glColorBuffer == Ref("glBuffer", nBuffers + 2)
                 colorBuffer == ColorBuffer(glColorBuffer, r.colors)
                 cmds == UploadCmds(glVertexBuffer, Flatten(r.obj.points))
                         \o UploadCmds(glColorBuffer, Flatten(r.colors))
                 uniqueId == NextId(id)
             IN  /\ object' = r.obj
                 /\ nBuffers' = nBuffers + 2
                 /\ id' = uniqueId
                 /\ IF MapContainsKey(objects, uniqueId)
                    THEN /\ last' = Call("addObject", arg, "NoUniqueId", NULL,
                                         Initialized, cmds)
                         /\ UNCHANGED <<objects, vertexBuffers, colorBuffers, returned>>
                    ELSE /\ objects' = MapSet(objects, uniqueId, arg)
                         /\ vertexBuffers' = MapSet(vertexBuffers, uniqueId, vertexBuffer)
                         /\ colorBuffers' = MapSet(colorBuffers, uniqueId, colorBuffer)
                         /\ returned' = Append(returned, uniqueId)
                         /\ last' = Call("addObject", arg, NoError, uniqueId,
                                         Initialized, cmds)
  /\ UNCHANGED <<width, height, backgroundColor, container, canvas, gl, camera,
                 shaderProgram, vertexPositionAttribute, vertexColorAttribute,
                 surface, elements, nPrograms>>
  /\ UNCHANGED keyIterator

\* ---------------------------------------------------------------- render
\* the two uniform uploads of the camera's matrices
UniformCmds ==
  << <<"getUniformLocation", shaderProgram, "perspective">>,
     <<"uniformMatrix4fv", "perspective">>,
     <<"getUniformLocation", shaderProgram, "view">>,
     <<"uniformMatrix4fv", "view">> >>

\* a loop body that binds the vertex buffer for both attributes
DrawCmds_oneBuffer(key) ==
  IF MapGet(objects, key) # NULL
  THEN LET vertexBuffer == MapGet(vertexBuffers, key)
           colorBuffer == MapGet(colorBuffers, key)
       IN  << <<"bindBuffer", vertexBuffer.glBuffer>>,
              <<"vertexAttribPointer", vertexPositionAttribute, vertexBuffer.itemSize>>,
              <<"bindBuffer", vertexBuffer.glBuffer>>,
              <<"vertexAttribPointer", vertexColorAttribute, colorBuffer.itemSize>>,
              <<"drawArrays", "TRIANGLE_STRIP", 0, vertexBuffer.itemCount>> >>
  ELSE <<>>

\* the body of the while loop for one key
DrawCmds(key) ==
  IF MapGet(objects, key) # NULL
  THEN LET vertexBuffer == MapGet(vertexBuffers, key)
           colorBuffer == MapGet(colorBuffers, key)
       IN  << <<"bindBuffer", vertexBuffer.glBuffer>>,
              <<"vertexAttribPointer", vertexPositionAttribute, vertexBuffer.itemSize>>,
              <<"bindBuffer", colorBuffer.glBuffer>>,
              <<"vertexAttribPointer", vertexColorAttribute, colorBuffer.itemSize>>,
              <<"drawArrays", "TRIANGLE_STRIP", 0, vertexBuffer.itemCount>> >>
  ELSE <<>>

\* the loop over this._objects.getKeyIterator() until StopIteration
RECURSIVE LoopCmds(_)
LoopCmds(keys) ==
  IF keys = <<>> THEN <<>> ELSE DrawCmds(Head(keys)) \o LoopCmds(Tail(keys))

\* the first check of render
RenderNotInitialized == canvas = NULL \/ gl = NULL \/ camera = NULL

\* AfterCatch absorbing whatever the loop throws
AfterCatch_absorbAll(e) == NoError

\* catch (e) { if (e != goog.iter.StopIteration) throw e; }: what render ends
\* with when the loop has thrown e
AfterCatch(e) == IF e # "StopIteration" THEN e ELSE NoError

\* the calls before the loop
BeforeLoopCmds == << <<"clear">> >> \o UniformCmds

\* render as one step.  The loop ends by the StopIteration of the exhausted
\* iterator, or by a graphics call throwing in the pass for the k-th key; the
\* commands of a pass that throws are not recorded.
render ==
  /\ keyIterator = NULL
  /\ IF RenderNotInitialized
     THEN last' = Call("render", NULL, "NotInitialized", NULL, Initialized, <<>>)
     ELSE \* this._shaderProgram is undefined: getUniformLocation either rejects
          \* the argument with a TypeError or records a GL error and returns null
          \/ /\ shaderProgram = NULL
             /\ last' = Call("render", NULL, "TypeError", NULL, Initialized,
                             << <<"clear">> >>)
          \/ last' = Call("render", NULL, AfterCatch("StopIteration"), NULL, Initialized,
                          BeforeLoopCmds \o LoopCmds(objects.keys))
          \/ \E k \in 1 .. Len(objects.keys) :
               last' = Call("render", NULL, AfterCatch("GLError"), NULL, Initialized,
                            BeforeLoopCmds \o LoopCmds(SubSeq(objects.keys, 1, k - 1)))
  /\ UNCHANGED <<rendererVars, hostVars, object, returned, keyIterator>>

\* render taken one pass of its loop at a time: the part before the loop
\* (lines 594-622), which ends by creating the key iterator
Running == "running"
renderBegin ==
  /\ keyIterator = NULL
  /\ IF RenderNotInitialized
     THEN /\ last' = Call("render", NULL, "NotInitialized", NULL, Initialized, <<>>)
          /\ UNCHANGED keyIterator
     ELSE \/ /\ shaderProgram = NULL
             /\ last' = Call("render", NULL, "TypeError", NULL, Initialized,
                             << <<"clear">> >>)
             /\ UNCHANGED keyIterator
          \/ /\ last' = Call("render", NULL, Running, NULL, Initialized, BeforeLoopCmds)
             /\ keyIterator' = <<objects.keys>>
  /\ UNCHANGED <<rendererVars, hostVars, object, returned>>

\* one pass of while (true): keyIterator.next() throws StopIteration when no
\* key is left, else the pass draws the entry of the key, or one of its
\* graphics calls throws; a throw leaves the loop for the catch clause
renderPass ==
  /\ keyIterator # NULL
  /\ LET rest == keyIterator[1] IN
     IF rest = <<>>
     THEN /\ last' = [last EXCEPT !.err = AfterCatch("StopIteration")]
          /\ keyIterator' = NULL
     ELSE \/ /\ last' = [last EXCEPT !.cmds = @ \o DrawCmds(Head(rest))]
             /\ keyIterator' = <<Tail(rest)>>
          \/ /\ last' = [last EXCEPT !.err = AfterCatch("GLError")]
             /\ keyIterator' = NULL
  /\ UNCHANGED <<rendererVars, hostVars, object, returned>>

\* ------------------------------------------------- the caller's scene object
\* object.points().add(point)
objectAddPoint ==
  /\ Len(object.points) < MaxPoints
  /\ object' = [object EXCEPT !.points = Append(@, Origin)]
  /\ last' = Call("points.add", Origin, NoError, NULL, Initialized, <<>>)
  /\ UNCHANGED <<rendererVars, hostVars, returned>>
  /\ UNCHANGED keyIterator

\* object.colors().add(color)
objectAddColor(c) ==
  /\ Len(object.colors) < MaxPoints
  /\ object' = [object EXCEPT !.colors = Append(@, c)]
  /\ last' = Call("colors.add", c, NoError, NULL, Initialized, <<>>)
  /\ UNCHANGED <<rendererVars, hostVars, returned>>
  /\ UNCHANGED keyIterator

\* object.setColor(color)
objectSetColor(c) ==
  /\ object' = [object EXCEPT !.color = c]
  /\ last' = Call("setColor", c, NoError, NULL, Initialized, <<>>)
  /\ UNCHANGED <<rendererVars, hostVars, returned>>
  /\ UNCHANGED keyIterator

\* ------------------------------------------------------------------ Next
\* the public methods of the renderer, called in any order with any argument
\* one pair of shader arguments for each way addShaders can go: an absent
\* argument, a shader that does not compile, two that compile
ShaderPairs ==
  {<<NULL, GoodShader>>, <<GoodShader, BadShader>>, <<GoodShader, GoodShader>>}

Next ==
  \/ \E w \in Sizes : setWidth(w)
  \/ \E h \in Sizes : setHeight(h)
  \/ \E c \in BgColors : setBackgroundColor(c)
  \/ \E c \in {NULL, Div} : setContainer(c)
  \/ init
  \/ \E a \in ShaderPairs : addShaders(a[1], a[2])
  \/ \E arg \in BadArgs \cup {TheObject} : addObject(arg)
  \/ render

\* the scene: the methods that read or write the registry and the shader
\* program, and the caller changing its scene object between the calls
NextScene ==
  \/ init
  \/ \E f \in ShaderArgs, v \in ShaderArgs : addShaders(f, v)
  \/ \E arg \in BadArgs \cup {TheObject} : addObject(arg)
  \/ render
  \/ objectAddPoint
  \/ \E c \in PointColors : objectAddColor(c)
  \/ \E c \in ObjectColors \cup {NULL} : objectSetColor(c)

\* the draw loop: render taken pass by pass; render is not re-entrant and the
\* page runs one script at a time, so no other method runs while a render
\* call is in its loop
NextLoop ==
  \/ /\ keyIterator = NULL
     /\ \/ init
        \/ addShaders(GoodShader, GoodShader)
        \/ addObject(TheObject)
        \/ objectAddPoint
  \/ renderBegin
  \/ renderPass

Spec == Init /\ [][Next]_vars
SpecScene == Init /\ [][NextScene]_vars
\* a call in its loop goes on to its next pass: WF on renderPass
SpecLoop == Init /\ [][NextLoop]_vars /\ WF_vars(renderPass)

\* ================================================================ claims

\* the entry of a map under key k
Entry(m, k) == m.vals[k]
Keys(m) == Range(m.keys)

\* ---- C1
\* C1: in every reachable state, also after an init that failed while getting
\* or configuring the context, the surface, the context and the Camera are
\* all null or all non-null.
C1_AtomicInit ==
  \/ canvas = NULL /\ gl = NULL /\ camera = NULL
  \/ canvas # NULL /\ gl # NULL /\ camera # NULL

\* an init has just failed while configuring the context it had acquired
C1_Witness ==
  /\ last.op = "init"
  /\ last.err = "AccessContextException"
  /\ last.cmds # <<>>
  /\ canvas = NULL

\* ---- C2
\* C2: an init call on a renderer whose surface exists returns without error
\* and changes nothing: the surface, context and Camera are the same, no
\* element is created or attached, no context command is issued, and no other
\* state of the renderer changes.
C2_InitIdempotent ==
  [][(last'.op = "init" /\ canvas # NULL) =>
       /\ last'.err = NoError
       /\ last'.cmds = <<>>
       /\ UNCHANGED <<rendererVars, hostVars, object, returned>>]_vars

\* init has returned from a call made when the surface existed
C2_Witness ==
  /\ last.op = "init"
  /\ last.wasInit
  /\ last.err = NoError
  /\ canvas # NULL

\* ---- C3
\* C3: addObject or render on a renderer that is not initialized fails with
\* the not-initialized error whatever the argument; afterwards the three maps
\* of the registry are empty, the identifier counter is what it was and no GPU
\* command was issued.
C3_NotInitializedFails ==
  [][(last'.op \in {"addObject", "render"} /\ ~Initialized) =>
       /\ last'.err = "NotInitialized"
       /\ last'.cmds = <<>>
       /\ objects' = EmptyMap
       /\ vertexBuffers' = EmptyMap
       /\ colorBuffers' = EmptyMap
       /\ id' = id
       /\ nBuffers' = nBuffers]_vars

\* addObject was called with a scene object after an init that failed
C3_Witness ==
  /\ last.op = "addObject"
  /\ last.arg = TheObject
  /\ last.err = "NotInitialized"
  /\ ~last.wasInit
  /\ elements # <<>>

\* ---- C4
\* C4: the identifiers successful addObject calls return are strictly
\* increasing and start at 0, whatever failed addObject calls and other
\* operations come between them.
C4_IdentifiersIncrease ==
  /\ returned # <<>> => returned[1] = 0
  /\ \A i, j \in DOMAIN returned : i < j => returned[i] < returned[j]

\* a second addObject has succeeded
C4_Witness ==
  /\ Len(returned) >= 2
  /\ last.op = "addObject"
  /\ last.err = NoError
  /\ last.ret = returned[Len(returned)]

\* ---- C5
\* the data of the second bufferData of an addObject: the flattened colors
UploadedColors == last.cmds[6][3]

\* C5: a successful addObject on an object with n points uploads n copies of
\* the object color when the object has one (its point colors are not used),
\* else the object's point colors when there are n of them, else n copies of
\* opaque white.
C5_ColorPolicy ==
  [][(last'.op = "addObject" /\ last'.err = NoError) =>
       LET n == Len(object.points) IN
         IF object.color # NULL
         THEN UploadedColors' = Flatten([i \in 1 .. n |-> object.color])
         ELSE IF Len(object.colors) = n
         THEN UploadedColors' = Flatten(object.colors)
         ELSE UploadedColors' = Flatten([i \in 1 .. n |-> <<1, 1, 1, 1>>])]_vars

\* the mismatch case: two points and one point color give two whites
C5_Witness ==
  /\ last.op = "addObject"
  /\ last.err = NoError
  /\ object.color = NULL
  /\ Len(object.points) = 2
  /\ Len(object.colors) = 1
  /\ UploadedColors = <<1, 1, 1, 1, 1, 1, 1, 1>>

\* ---- C6
\* C6: no addObject call, successful or failed, changes the object passed to
\* it: its color, its points and its point colors are what they were.
C6_ObjectUnchanged ==
  [][last'.op = "addObject" => object' = object]_vars

\* an object with more point colors than points, and no color, was registered
C6_Witness ==
  /\ last.op = "addObject"
  /\ last.err = NoError
  /\ object.color = NULL
  /\ Len(object.colors) > Len(object.points)

\* ---- C7
\* C7: whenever the surface exists, its width, height and background color
\* are the renderer's stored width, height and background color.
C7_SurfaceMatchesStored ==
  canvas # NULL =>
    /\ surface.width = width
    /\ surface.height = height
    /\ surface.style["background-color"] = backgroundColor

\* ---- C8
\* the points of the scene object a registry entry refers to
PointsOf(o) == object.points

\* C8 as claimed: for every entry of the registry, the vertex handle's element
\* count is the current point count of the registered object.
C8_VertexCountCurrent ==
  \A k \in Keys(objects) :
    Entry(vertexBuffers, k).itemCount = Len(PointsOf(Entry(objects, k)))

\* C8 as amended: the vertex handle of an entry records the point count the
\* object had when addObject registered it, and neither the handle nor the
\* object reference of an entry changes afterwards.
C8_VertexCountAtRegistration ==
  [][/\ (last'.op = "addObject" /\ last'.err = NoError) =>
          /\ MapContainsKey(vertexBuffers', last'.ret)
          /\ vertexBuffers'.vals[last'.ret].itemCount = Len(object.points)
          /\ objects'.vals[last'.ret] = last'.arg
     /\ \A k \in Keys(objects) :
          /\ MapContainsKey(objects', k) /\ MapContainsKey(vertexBuffers', k)
          /\ objects'.vals[k] = objects.vals[k]
          /\ vertexBuffers'.vals[k] = vertexBuffers.vals[k]]_vars

\* the caller has added a point to an object that is registered
C8_Witness ==
  /\ last.op = "points.add"
  /\ MapContainsKey(objects, 0)
  /\ Entry(objects, 0) = TheObject
  /\ Entry(vertexBuffers, 0).itemCount < Len(object.points)

\* ---- C9
\* C9: for every entry of the registry, the color handle has as many elements
\* as the vertex handle, the vertex handle has 3 components per element and
\* the color handle 4.
C9_HandlesAgree ==
  \A k \in Keys(objects) :
    /\ MapContainsKey(vertexBuffers, k) /\ MapContainsKey(colorBuffers, k)
    /\ Entry(colorBuffers, k).itemCount = Entry(vertexBuffers, k).itemCount
    /\ Entry(vertexBuffers, k).itemSize = 3
    /\ Entry(colorBuffers, k).itemSize = 4

\* an object with a color, two points and one point color was registered
C9_Witness ==
  /\ last.op = "addObject"
  /\ last.err = NoError
  /\ object.color # NULL
  /\ Len(object.points) = 2
  /\ Len(object.colors) = 1
  /\ Entry(colorBuffers, last.ret).itemCount = 2

\* ---- C10
\* how many of the commands are calls of name
CountCmd(cmds, name) == Cardinality({i \in DOMAIN cmds : cmds[i][1] = name})

\* what C10 says of a render call
RenderedNothing ==
  /\ last.err = NoError
  /\ CountCmd(last.cmds, "clear") = 1
  /\ CountCmd(last.cmds, "uniformMatrix4fv") = 2
  /\ CountCmd(last.cmds, "bindBuffer") = 0
  /\ CountCmd(last.cmds, "drawArrays") = 0

\* C10: render on an initialized renderer with no registered object clears
\* once, uploads the projection and the view matrix, binds and draws nothing,
\* and returns without error.
C10_RenderEmptyRegistry ==
  (last.op = "render" /\ last.wasInit /\ objects.keys = <<>>) => RenderedNothing

\* C10 on a renderer that has a shader program
C10_RenderEmptyRegistryWithProgram ==
  (last.op = "render" /\ last.wasInit /\ objects.keys = <<>> /\ shaderProgram # NULL)
    => RenderedNothing

\* ---- C11
\* the program and the attribute locations the renderer retains
programVars == <<shaderProgram, vertexPositionAttribute, vertexColorAttribute>>

\* C11: addShaders fails with the not-initialized error when the surface or
\* the context does not exist, whatever the shaders, and with the
\* invalid-argument error when they exist and a shader is missing; whenever it
\* fails (these two cases, compilation, linking) the active program and the
\* retained attribute locations are what they were.
C11_AddShadersFailures ==
  [][last'.op = "addShaders" =>
       /\ (canvas = NULL \/ gl = NULL) => last'.err = "NotInitialized"
       /\ (canvas # NULL /\ gl # NULL /\ (last'.arg[1] = NULL \/ last'.arg[2] = NULL))
            => last'.err = "NoShaders"
       /\ last'.err \in {"NotInitialized", "NoShaders", "ShaderCompilation", "ShaderLink"}
            => UNCHANGED programVars]_vars

\* linking has failed on a renderer that has an active program
C11_Witness ==
  /\ last.op = "addShaders"
  /\ last.err = "ShaderLink"
  /\ shaderProgram # NULL

\* ---- C12
\* the canvas elements that were appended to a container
Attached == {i \in DOMAIN elements : elements[i] # NULL}

\* C12: over any sequence of init calls, failed and retried ones included, at
\* most one surface is created and attached to the container, and a published
\* surface, context and Camera are never replaced.
C12_SurfaceCreatedOnce ==
  [][/\ Cardinality(Attached') <= 1
     /\ canvas # NULL => UNCHANGED <<canvas, gl, camera>>]_vars

\* ---- C13
\* C13: a render call that returns normally has issued, after the clear and
\* the four uniform commands, exactly one group of five commands per registry
\* entry, the groups in insertion order, which is ascending identifier order;
\* the group of an entry binds that entry's vertex handle, then that entry's
\* color handle, then draws a triangle strip over the element count of its
\* vertex handle; no two entries share a GPU buffer, so a group never uses
\* the handles of another entry.
\* the clear and the four uniform commands precede the first group
FirstDrawCmd == 1 + Len(UniformCmds)
\* gl calls in one pass of the loop body
CmdsPerEntry == 5
GlBuffersOf(k) == {Entry(vertexBuffers, k).glBuffer, Entry(colorBuffers, k).glBuffer}
C13_DrawOrder ==
  (last.op = "render" /\ last.err = NoError) =>
    LET n == Len(objects.keys) IN
    /\ Len(last.cmds) = FirstDrawCmd + CmdsPerEntry * n
    /\ last.cmds[1] = <<"clear">>
    /\ CountCmd(last.cmds, "drawArrays") = n
    /\ \A i \in 1..n :
         LET k == i - 1
             at == FirstDrawCmd + CmdsPerEntry * (i - 1)
         IN  /\ objects.keys[i] = k
             /\ last.cmds[at + 1] = <<"bindBuffer", Entry(vertexBuffers, k).glBuffer>>
             /\ last.cmds[at + 2][1] = "vertexAttribPointer"
             /\ last.cmds[at + 3] = <<"bindBuffer", Entry(colorBuffers, k).glBuffer>>
             /\ last.cmds[at + 4][1] = "vertexAttribPointer"
             /\ last.cmds[at + 5] = <<"drawArrays", "TRIANGLE_STRIP", 0,
                                      Entry(vertexBuffers, k).itemCount>>
             /\ Cardinality(GlBuffersOf(k)) = 2
             /\ \A j \in 1..n : j # i => GlBuffersOf(j - 1) \cap GlBuffersOf(k) = {}

\* a frame drawn with an active program over two entries of different sizes
C13_Witness ==
  /\ last.op = "render"
  /\ last.err = NoError
  /\ shaderProgram # NULL
  /\ Len(objects.keys) = 2
  /\ Entry(vertexBuffers, 0).itemCount # Entry(vertexBuffers, 1).itemCount

\* ---- C14
\* C14: the collision failure of addObject cannot occur: no call reports
\* "NoUniqueId", and in every reachable state the identifier the next
\* registration would take (the counter plus one) is not a key of the
\* registry.
C14_NoCollision ==
  /\ last.err # "NoUniqueId"
  /\ ~MapContainsKey(objects, id + 1)

\* a registration made into a registry that already holds an entry
C14_Witness ==
  /\ last.op = "addObject"
  /\ last.err = NoError
  /\ last.ret = 1
  /\ Keys(objects) = {0, 1}

\* ---- C15
\* C15 as stated: once a program is stored, no step changes the active
\* program or the two attribute locations.
C15_ProgramImmutable ==
  [][shaderProgram # NULL => UNCHANGED programVars]_vars

\* What the code does keep: once a program is stored, the active program and
\* the two attribute locations are changed only by a later addShaders call
\* that links successfully, which stores the program it has just created; a
\* failed addShaders call and every other operation leave the three
\* unchanged, and the program is never unset.
C15_ProgramReplacedOnlyByAddShaders ==
  [][shaderProgram # NULL =>
       \/ UNCHANGED programVars
       \/ /\ last'.op = "addShaders"
          /\ last'.err = NoError
          /\ shaderProgram' = Ref("program", nPrograms')
          /\ shaderProgram' # shaderProgram]_vars

\* a second successful addShaders has replaced the first program
C15_Replaced ==
  /\ last.op = "addShaders"
  /\ last.err = NoError
  /\ shaderProgram = Ref("program", 2)

\* ---- C17
\* C17: on an initialized renderer, addObject with an absent argument or one
\* that is not a scene object fails with "IllegalObject" having issued no
\* graphics command: the three maps, the counter, the allocated GPU buffers,
\* the identifiers handed out and the caller's object are unchanged.  Every
\* successful addObject returns the counter plus one, so the call after the
\* failure returns what it would have returned without it.
registryVars == <<objects, vertexBuffers, colorBuffers, id>>
C17_IllegalObjectFailsEarly ==
  [][last'.op = "addObject" /\ canvas # NULL /\ gl # NULL /\ camera # NULL =>
       /\ last'.arg # TheObject =>
            /\ last'.err = "IllegalObject"
            /\ last'.cmds = <<>>
            /\ UNCHANGED <<registryVars, nBuffers, returned, object>>
       /\ last'.err = NoError => last'.ret = id + 1]_vars

\* an invalid argument rejected by a renderer that already holds an entry
C17_Witness ==
  /\ last.op = "addObject"
  /\ last.err = "IllegalObject"
  /\ last.arg = Ref("notAnObject", 1)
  /\ Keys(objects) = {0}
  /\ nBuffers = 2

\* ---- C18
\* C18: no step removes a registry entry or changes its object reference,
\* its vertex handle or its color handle; the key order only grows at the
\* end; a render call leaves the three maps and the counter unchanged.
C18_RegistryAppendOnly ==
  [][/\ Len(objects.keys) <= Len(objects'.keys)
     /\ SubSeq(objects'.keys, 1, Len(objects.keys)) = objects.keys
     /\ \A k \in Keys(objects) :
          /\ k \in Keys(objects') /\ k \in Keys(vertexBuffers') /\ k \in Keys(colorBuffers')
          /\ Entry(objects', k) = Entry(objects, k)
          /\ Entry(vertexBuffers', k) = Entry(vertexBuffers, k)
          /\ Entry(colorBuffers', k) = Entry(colorBuffers, k)
     /\ last'.op = "render" => UNCHANGED registryVars]_vars

\* a second entry appended behind the first
C18_Witness ==
  /\ last.op = "addObject"
  /\ last.err = NoError
  /\ objects.keys = <<0, 1>>
  /\ Entry(vertexBuffers, 0).glBuffer # Entry(vertexBuffers, 1).glBuffer

\* ---- C19
\* C19: in every state the three maps have the same keys, in the same
\* order, and the keys are exactly the integers 0 .. id (none when id = -1).
C19_RegistryKeys ==
  /\ Keys(objects) = 0 .. id
  /\ vertexBuffers.keys = objects.keys
  /\ colorBuffers.keys = objects.keys
  /\ DOMAIN objects.vals = 0 .. id
  /\ DOMAIN vertexBuffers.vals = 0 .. id
  /\ DOMAIN colorBuffers.vals = 0 .. id

\* two entries registered, the counter at 1
C19_Witness ==
  /\ id = 1
  /\ Keys(colorBuffers) = {0, 1}

\* ---- C20
\* C20: a render call that has issued a uniform command or a draw call ran
\* with a stored program and both attribute locations retained.
C20_RenderNeedsProgram ==
  (/\ last.op = "render"
   /\ CountCmd(last.cmds, "getUniformLocation") + CountCmd(last.cmds, "drawArrays") > 0)
    => /\ shaderProgram # NULL
       /\ vertexPositionAttribute # NULL
       /\ vertexColorAttribute # NULL

\* ---- C16
\* C16: a render call that has entered its loop leaves it: each pass takes
\* one key from the iterator, and the call ends either on the StopIteration
\* of the exhausted iterator, which is absorbed, so that render returns
\* normally having issued one draw per entry, the same commands as the loop
\* read as a whole, or on a graphics call that throws in a pass, and then
\* the failure is what the caller gets.
InLoop == keyIterator # NULL
C16_LoopStep ==
  InLoop =>
    /\ InLoop' => Len(keyIterator'[1]) = Len(keyIterator[1]) - 1
    /\ ~InLoop' =>
         IF keyIterator[1] = <<>>
         THEN /\ last'.err = NoError
              /\ CountCmd(last'.cmds, "drawArrays") = Len(objects.keys)
              /\ last'.cmds = BeforeLoopCmds \o LoopCmds(objects.keys)
         ELSE last'.err = "GLError"
C16_RenderTerminates ==
  /\ InLoop ~> ~InLoop
  /\ [][C16_LoopStep]_vars

\* a render call has returned normally from a loop over two entries
C16_Witness ==
  /\ ~InLoop
  /\ last.op = "render"
  /\ last.err = NoError
  /\ CountCmd(last.cmds, "drawArrays") = 2

====
